---- MODULE Spec2Model ----
(***************************************************************************)
(* tutorNeo: the chat route (src/app/api/chat/route.ts) and the page that *)
(* calls it (src/app/page.tsx).  Spec is one POST of the route, over any   *)
(* request; PageSpec is the page from its first render, with the route     *)
(* behind its fetches.                                                     *)
(*                                                                         *)
(* Texts.  A JavaScript string is modelled as a sequence of atoms.  An     *)
(* atom is either one significant character ("{", "}", "?", a quote, a     *)
(* digit, a blank, ...) or a run of plain letters written as one atom      *)
(* ("reply", "Aprobado", "hola").  A letter run holds none of the          *)
(* characters the route looks for, so indexOf, lastIndexOf, slice, trim    *)
(* and JSON.parse act on atoms exactly as they act on the characters.      *)
(* Indexes are 0-based, as in JavaScript.                                  *)
(*                                                                         *)
(* Values.  Every JavaScript value is a record tagged by its field t:      *)
(*   undefined, null, bool (b), num (k, n, d), str (s), arr (a), obj (m).  *)
(***************************************************************************)
EXTENDS Integers, Sequences, FiniteSets, TLC

(***************************************************************************)
(* JavaScript values                                                       *)
(***************************************************************************)
Undefined == [t |-> "undefined"]
Null == [t |-> "null"]
Bool(b) == [t |-> "bool", b |-> b]
Str(s) == [t |-> "str", s |-> s]
Arr(a) == [t |-> "arr", a |-> a]
Obj(m) == [t |-> "obj", m |-> m]
Member(k, v) == [k |-> k, v |-> v]

\* A number: k = "rat" is the exact value n/d (d a power of ten, lowest
\* terms in tens); "large" is a finite double of magnitude above 10^9 and
\* "tiny" a non-zero one of magnitude below 1/10, each of sign n; "inf" is
\* +Infinity or -Infinity by the sign n; "nan" is NaN.
Num(k, n, d) == [t |-> "num", k |-> k, n |-> n, d |-> d]
Int2Num(n) == Num("rat", n, 1)
NaN == Num("nan", 0, 1)

SetMin(S) == CHOOSE x \in S : \A y \in S : x <= y
SetMax(S) == CHOOSE x \in S : \A y \in S : x >= y

\* ToBoolean: undefined, null, false, 0, NaN and "" are falsy.
Truthy(v) ==
    CASE v.t = "undefined" -> FALSE
      [] v.t = "null" -> FALSE
      [] v.t = "bool" -> v.b
      [] v.t = "num" -> ~(v.k = "nan" \/ (v.k = "rat" /\ v.n = 0))
      [] v.t = "str" -> v.s # <<>>
      [] OTHER -> TRUE

\* a || b
OrElse(a, b) == IF Truthy(a) THEN a ELSE b

\* typeof v (an array and null are "object")
TypeOf(v) ==
    CASE v.t = "undefined" -> "undefined"
      [] v.t = "bool" -> "boolean"
      [] v.t = "num" -> "number"
      [] v.t = "str" -> "string"
      [] OTHER -> "object"

\* v[key] for an own property of a parsed JSON value: the last member of that
\* name of an object; undefined on an array (none of the names read by the
\* route is an index or "length") and on an object without it.
Get(v, key) ==
    IF v.t # "obj" THEN Undefined
    ELSE LET hits == {i \in 1..Len(v.m) : v.m[i].k = key}
         IN IF hits = {} THEN Undefined ELSE v.m[SetMax(hits)].v

(***************************************************************************)
(* String primitives                                                       *)
(***************************************************************************)
\* White space removed by String.prototype.trim.
IsWhitespace(c) == c \in {" ", "\n", "\t", "\r"}

\* s.indexOf(c, from): the first index >= from that holds c, or -1.
IndexOfFrom(s, c, from) ==
    LET hits == {i \in from..(Len(s) - 1) : s[i + 1] = c}
    IN IF hits = {} THEN -1 ELSE SetMin(hits)

IndexOf(s, c) == IndexOfFrom(s, c, 0)

\* s.lastIndexOf(c)
LastIndexOf(s, c) ==
    LET hits == {i \in 0..(Len(s) - 1) : s[i + 1] = c}
    IN IF hits = {} THEN -1 ELSE SetMax(hits)

\* s.slice(from, to) for 0 <= from <= to
Slice(s, from, to) == SubSeq(s, from + 1, IF to > Len(s) THEN Len(s) ELSE to)

\* s.trim()
Trim(s) ==
    LET keep == {i \in 1..Len(s) : ~IsWhitespace(s[i])}
    IN IF keep = {} THEN <<>> ELSE SubSeq(s, SetMin(keep), SetMax(keep))

(***************************************************************************)
(* JSON.parse: a recursive-descent reading of the JSON grammar (objects,   *)
(* arrays, strings with the escapes \" \\ \/ \n \t \r, numbers with        *)
(* fraction and exponent, true, false, null, white space).  After a "\"    *)
(* an atom is one character.  A position is a 1-based index into the text. *)
(***************************************************************************)
Digits == <<"0", "1", "2", "3", "4", "5", "6", "7", "8", "9">>
IsDigit(c) == \E i \in 1..Len(Digits) : Digits[i] = c
DigitVal(c) == (CHOOSE i \in 1..Len(Digits) : Digits[i] = c) - 1

IsJsonWhitespace(c) == c \in {" ", "\n", "\t", "\r"}

Fail == [ok |-> FALSE, v |-> Undefined, i |-> 0]
Ok(v, i) == [ok |-> TRUE, v |-> v, i |-> i]

At(s, i) == IF i >= 1 /\ i <= Len(s) THEN s[i] ELSE "<eof>"

SkipWs(s, i) ==
    LET non == {j \in i..Len(s) : ~IsJsonWhitespace(s[j])}
    IN IF non = {} THEN Len(s) + 1 ELSE SetMin(non)

\* The first position >= i that holds no digit.
DigitsEnd(s, i) ==
    LET non == {j \in i..Len(s) : ~IsDigit(s[j])}
    IN IF non = {} THEN Len(s) + 1 ELSE SetMin(non)

RECURSIVE DigitsVal(_, _, _, _)
\* The decimal value of the digits s[a..b-1], continuing from acc.
DigitsVal(s, a, b, acc) ==
    IF a >= b THEN acc ELSE DigitsVal(s, a + 1, b, acc * 10 + DigitVal(s[a]))

RECURSIVE Pow10(_)
Pow10(k) == IF k <= 0 THEN 1 ELSE 10 * Pow10(k - 1)

RECURSIVE NumDigits(_)
NumDigits(n) == IF n < 10 THEN 1 ELSE 1 + NumDigits(n \div 10)

RECURSIVE Reduce(_, _)
\* n/d with trailing zeros of the fraction removed.
Reduce(n, d) ==
    IF d > 1 /\ n % 10 = 0 THEN Reduce(n \div 10, d \div 10) ELSE Num("rat", n, d)

\* The double denoted by sign * N * 10^x, for a mantissa N of at most nine
\* digits.  The largest finite double is 1.7976931348623157e308 and half the
\* smallest is 2.4703282292062327e-324, so the first nine digits of such a
\* mantissa decide whether it overflows to Infinity or underflows to 0.
Decimal(sign, N, x) ==
    LET L == NumDigits(N)
    IN CASE N = 0 -> Int2Num(0)
         [] N # 0 /\ x >= 0 /\ L + x <= 9 -> Int2Num(sign * N * Pow10(x))
         [] N # 0 /\ x < 0 /\ -x <= 9 -> Reduce(sign * N, Pow10(-x))
         [] N # 0 /\ x < 0 /\ -x > 9 /\ L + x >= -322 -> Num("tiny", sign, 1)
         [] N # 0 /\ x < 0 /\ -x > 9 /\ L + x = -323 ->
                IF N * Pow10(9 - L) <= 247032822
                THEN Int2Num(0) ELSE Num("tiny", sign, 1)
         [] N # 0 /\ x < 0 /\ -x > 9 /\ L + x <= -324 -> Int2Num(0)
         [] N # 0 /\ x >= 0 /\ L + x > 9 /\ L + x <= 308 -> Num("large", sign, 1)
         [] N # 0 /\ x >= 0 /\ L + x = 309 ->
                IF N * Pow10(9 - L) <= 179769313
                THEN Num("large", sign, 1) ELSE Num("inf", sign, 1)
         [] OTHER -> Num("inf", sign, 1)

\* number: -? (0 | [1-9][0-9]*) (. [0-9]+)? ([eE] [+-]? [0-9]+)?
ParseNumber(s, i) ==
    LET neg == At(s, i) = "-"
        p0 == IF neg THEN i + 1 ELSE i
        intEnd == IF At(s, p0) = "0" THEN p0 + 1 ELSE DigitsEnd(s, p0)
        hasFrac == At(s, intEnd) = "."
        fracEnd == DigitsEnd(s, intEnd + 1)
        mEnd == IF hasFrac THEN fracEnd ELSE intEnd
        hasExp == At(s, mEnd) \in {"e", "E"}
        expSigned == At(s, mEnd + 1) \in {"+", "-"}
        expStart == IF expSigned THEN mEnd + 2 ELSE mEnd + 1
        expEnd == DigitsEnd(s, expStart)
        F == IF hasFrac THEN fracEnd - (intEnd + 1) ELSE 0
        N == DigitsVal(s, intEnd + 1, IF hasFrac THEN fracEnd ELSE intEnd + 1,
                       DigitsVal(s, p0, intEnd, 0))
        e == IF ~hasExp THEN 0
             ELSE IF At(s, mEnd + 1) = "-" THEN -DigitsVal(s, expStart, expEnd, 0)
             ELSE DigitsVal(s, expStart, expEnd, 0)
    IN IF ~IsDigit(At(s, p0)) THEN Fail
       ELSE IF hasFrac /\ fracEnd = intEnd + 1 THEN Fail
       ELSE IF hasExp /\ expEnd = expStart THEN Fail
       ELSE Ok(Decimal(IF neg THEN -1 ELSE 1, N, e - F), IF hasExp THEN expEnd ELSE mEnd)

RECURSIVE ParseStringBody(_, _, _)
\* The characters of a string literal from position i, just after its opening
\* quote, up to its closing quote.
ParseStringBody(s, i, acc) ==
    LET c == At(s, i)
        e == At(s, i + 1)
    IN CASE i > Len(s) -> Fail
         [] i <= Len(s) /\ c = "\"" -> Ok(Str(acc), i + 1)
         [] i <= Len(s) /\ c = "\\" ->
                CASE e \in {"\"", "\\", "/"} -> ParseStringBody(s, i + 2, Append(acc, e))
                  [] e = "n" -> ParseStringBody(s, i + 2, Append(acc, "\n"))
                  [] e = "t" -> ParseStringBody(s, i + 2, Append(acc, "\t"))
                  [] e = "r" -> ParseStringBody(s, i + 2, Append(acc, "\r"))
                  [] OTHER -> Fail
         [] i <= Len(s) /\ c \in {"\n", "\t", "\r"} -> Fail
         [] OTHER -> ParseStringBody(s, i + 1, Append(acc, c))

RECURSIVE ParseValue(_, _)
RECURSIVE ParseMembers(_, _, _)
RECURSIVE ParseElements(_, _, _)

\* The members of an object from position i, the start of a member.
ParseMembers(s, i, acc) ==
    LET key == ParseStringBody(s, i + 1, <<>>)
        colon == SkipWs(s, key.i)
        val == ParseValue(s, colon + 1)
        next == SkipWs(s, val.i)
        all == Append(acc, Member(key.v.s, val.v))
    IN IF At(s, i) # "\"" \/ ~key.ok THEN Fail
       ELSE IF At(s, colon) # ":" THEN Fail
       ELSE IF ~val.ok THEN Fail
       ELSE IF At(s, next) = "," THEN ParseMembers(s, SkipWs(s, next + 1), all)
       ELSE IF At(s, next) = "}" THEN Ok(Obj(all), next + 1)
       ELSE Fail

\* The elements of an array from position i, the start of an element.
ParseElements(s, i, acc) ==
    LET val == ParseValue(s, i)
        next == SkipWs(s, val.i)
        all == Append(acc, val.v)
    IN IF ~val.ok THEN Fail
       ELSE IF At(s, next) = "," THEN ParseElements(s, next + 1, all)
       ELSE IF At(s, next) = "]" THEN Ok(Arr(all), next + 1)
       ELSE Fail

ParseValue(s, i0) ==
    LET i == SkipWs(s, i0)
        c == At(s, i)
        inner == SkipWs(s, i + 1)
    IN CASE c = "{" -> IF At(s, inner) = "}" THEN Ok(Obj(<<>>), inner + 1)
                       ELSE ParseMembers(s, inner, <<>>)
         [] c = "[" -> IF At(s, inner) = "]" THEN Ok(Arr(<<>>), inner + 1)
                       ELSE ParseElements(s, inner, <<>>)
         [] c = "\"" -> ParseStringBody(s, i + 1, <<>>)
         [] c = "true" -> Ok(Bool(TRUE), i + 1)
         [] c = "false" -> Ok(Bool(FALSE), i + 1)
         [] c = "null" -> Ok(Null, i + 1)
         [] c = "-" \/ IsDigit(c) -> ParseNumber(s, i)
         [] OTHER -> Fail

\* JSON.parse(text): ok = FALSE stands for the SyntaxError it throws.
JsonParse(text) ==
    LET r == ParseValue(text, 1)
    IN IF r.ok /\ SkipWs(text, r.i) = Len(text) + 1
       THEN [ok |-> TRUE, v |-> r.v] ELSE [ok |-> FALSE, v |-> Undefined]

(***************************************************************************)
(* JSON.stringify                                                          *)
(***************************************************************************)
RECURSIVE NatAtoms(_)
\* The decimal digits of a natural number.
NatAtoms(n) ==
    IF n < 10 THEN <<Digits[n + 1]>> ELSE Append(NatAtoms(n \div 10), Digits[(n % 10) + 1])

RECURSIVE PadZeros(_, _)
PadZeros(digits, width) ==
    IF Len(digits) >= width THEN digits ELSE PadZeros(<<"0">> \o digits, width)

\* A finite number n/d as JavaScript prints it.
NumAtoms(n, d) ==
    LET abs == IF n < 0 THEN -n ELSE n
        sign == IF n < 0 THEN <<"-">> ELSE <<>>
    IN IF d = 1 THEN sign \o NatAtoms(abs)
       ELSE sign \o NatAtoms(abs \div d) \o <<".">>
                 \o PadZeros(NatAtoms(abs % d), NumDigits(d) - 1)

RECURSIVE Escape(_)
\* The body of the string literal of s.
Escape(s) ==
    IF s = <<>> THEN <<>>
    ELSE LET c == Head(s)
             out == CASE c \in {"\"", "\\"} -> <<"\\", c>>
                      [] c = "\n" -> <<"\\", "n">>
                      [] c = "\t" -> <<"\\", "t">>
                      [] c = "\r" -> <<"\\", "r">>
                      [] OTHER -> <<c>>
         IN out \o Escape(Tail(s))

Quote(s) == <<"\"">> \o Escape(s) \o <<"\"">>

RECURSIVE Stringify(_)
RECURSIVE StringifyElements(_, _)
RECURSIVE StringifyMembers(_, _, _)

\* The elements a[i..], comma-separated; undefined prints as null.
StringifyElements(a, i) ==
    IF i > Len(a) THEN <<>>
    ELSE (IF i > 1 THEN <<",">> ELSE <<>>)
         \o (IF a[i].t = "undefined" THEN <<"null">> ELSE Stringify(a[i]))
         \o StringifyElements(a, i + 1)

\* The members m[i..], comma-separated; a member whose value is undefined
\* is left out.
StringifyMembers(m, i, first) ==
    IF i > Len(m) THEN <<>>
    ELSE IF m[i].v.t = "undefined" THEN StringifyMembers(m, i + 1, first)
    ELSE (IF first THEN <<>> ELSE <<",">>)
         \o Quote(m[i].k) \o <<":">> \o Stringify(m[i].v)
         \o StringifyMembers(m, i + 1, FALSE)

\* JSON.stringify(v) for v other than undefined; a number that is not finite
\* prints as null.
Stringify(v) ==
    CASE v.t = "null" -> <<"null">>
      [] v.t = "bool" -> IF v.b THEN <<"true">> ELSE <<"false">>
      [] v.t = "num" /\ v.k = "rat" -> NumAtoms(v.n, v.d)
      [] v.t = "num" /\ v.k \in {"inf", "nan"} -> <<"null">>
      [] v.t = "str" -> Quote(v.s)
      [] v.t = "arr" -> <<"[">> \o StringifyElements(v.a, 1) \o <<"]">>
      [] v.t = "obj" -> <<"{">> \o StringifyMembers(v.m, 1, TRUE) \o <<"}">>

(***************************************************************************)
(* Number and Math primitives used by the route                            *)
(***************************************************************************)
\* Number.isFinite(v): a number that is neither NaN nor an infinity.
NumberIsFinite(v) == v.t = "num" /\ v.k \notin {"inf", "nan"}

\* Math.round(x): the integer nearest to x, a tie going up.
MathRound(x) ==
    CASE x.k = "rat" -> Int2Num((2 * x.n + x.d) \div (2 * x.d))
      [] x.k = "tiny" -> Int2Num(0)
      [] OTHER -> x

\* a < b for numbers that are integers, large or infinite.
NumLess(a, b) ==
    LET rank(x) == CASE x.k = "inf" -> 2 * x.n
                     [] x.k = "large" -> x.n
                     [] x.k = "rat" -> 0
    IN IF rank(a) # rank(b) THEN rank(a) < rank(b)
       ELSE a.k = "rat" /\ b.k = "rat" /\ a.n * b.d < b.n * a.d

MathMin(a, b) == IF a.k = "nan" \/ b.k = "nan" THEN NaN ELSE IF NumLess(b, a) THEN b ELSE a
MathMax(a, b) == IF a.k = "nan" \/ b.k = "nan" THEN NaN ELSE IF NumLess(a, b) THEN b ELSE a

(***************************************************************************)
(* route.ts                                                                *)
(* A literal of the source that the route never scans is kept as one atom. *)
(***************************************************************************)
FORMAT_INSTRUCTIONS ==
    <<"Responde SOLO en JSON valido con este formato: "
      \o "{\"reply\":\"...\",\"evaluation\":{\"status\":\"Aprobado\"|\"En proceso\",\"score\":0-100,\"weakConcepts\":[\"...\"],\"nextActions\":[\"...\"],\"summary\":\"...\"}}. "
      \o "Reglas para reply: maximo una pregunta (un solo signo ?), si haces una pregunta que sea al final, y no incluyas resumen ni siguientes pasos en reply (eso va en evaluation.summary y nextActions).">>

START_INSTRUCTION == <<"Inicia la conversacion con la primera pregunta al alumno.">>
DEFAULT_MODEL == <<"gpt-4.1-mini">>
MISSING_KEY == <<"Missing OPENAI_API_KEY">>
REQUEST_FAILED == <<"OpenAI request failed">>
ND == <<"N/D">>

\* a ?? b
Nullish(v) == v.t \in {"undefined", "null"}
Coalesce(a, b) == IF Nullish(a) THEN b ELSE a

\* Faulty variant: a missing field is left blank.
FieldLineBlank(label, value, tail) ==
    <<label>> \o (IF Nullish(value) THEN <<>> ELSE value.s) \o tail

\* `${label}${value ?? "N/D"}${tail}` for a text-valued field.
FieldLine(label, value, tail) == <<label>> \o Coalesce(value, Str(ND)).s \o tail

RECURSIVE Join(_, _)
\* lines.join(sep)
Join(lines, sep) ==
    IF lines = <<>> THEN <<>>
    ELSE IF Len(lines) = 1 THEN lines[1]
    ELSE lines[1] \o sep \o Join(Tail(lines), sep)

TaskLines(task) ==
    IF Truthy(task)
    THEN << FieldLine("- Tema: ", Get(task, <<"topic">>), <<>>),
            FieldLine("- Objetivo: ", Get(task, <<"objective">>), <<>>),
            FieldLine("- Materia: ", Get(task, <<"subject">>), <<>>),
            FieldLine("- Grado: ", Get(task, <<"grade">>), <<>>),
            FieldLine("- Duracion estimada: ", Get(task, <<"durationMin">>), <<" min">>) >>
    ELSE <<>>

StudentLines(student) ==
    IF Truthy(student)
    THEN << FieldLine("- Nombre: ", Get(student, <<"name">>), <<>>),
            FieldLine("- Edad: ", Get(student, <<"age">>), <<>>),
            FieldLine("- Curso: ", Get(student, <<"course">>), <<>>),
            FieldLine("- Fortalezas: ", Get(student, <<"strengths">>), <<>>),
            FieldLine("- Dificultades: ", Get(student, <<"challenges">>), <<>>) >>
    ELSE <<>>

\* The lines buildContext pushes, in order.
ContextLines(task, student) ==
    << <<"Contexto de tarea:">> >> \o TaskLines(task)
    \o << <<"Perfil del alumno:">> >> \o StudentLines(student)

buildContext(task, student) == Join(ContextLines(task, student), <<"\n">>)

\* Faulty variant: the whole text is parsed, not its brace span.
ExtractJsonWhole(text) ==
    LET parsed == JsonParse(text)
    IN IF IndexOf(text, "{") = -1 \/ LastIndexOf(text, "}") = -1 THEN Null
       ELSE IF parsed.ok THEN parsed.v ELSE Null

\* null when the text holds no "{...}" span or the span is not JSON.
extractJson(text) ==
    LET start == IndexOf(text, "{")
        end == LastIndexOf(text, "}")
        candidate == Slice(text, start, end + 1)
        parsed == JsonParse(candidate)
    IN IF start = -1 \/ end = -1 \/ end <= start THEN Null
       ELSE IF parsed.ok THEN parsed.v ELSE Null

\* Faulty variants: the cut made after the second "?"; the cut made at a lone "?".
EnforceAtSecond(reply) ==
    LET first == IndexOf(reply, "?")
        second == IndexOfFrom(reply, "?", first + 1)
    IN IF first = -1 \/ second = -1 THEN Trim(reply) ELSE Trim(Slice(reply, 0, second + 1))
EnforceAtFirst(reply) ==
    LET first == IndexOf(reply, "?")
    IN IF first = -1 THEN Trim(reply) ELSE Trim(Slice(reply, 0, first + 1))

enforceSingleQuestion(reply) ==
    LET first == IndexOf(reply, "?")
        second == IndexOfFrom(reply, "?", first + 1)
    IN IF first = -1 THEN Trim(reply)
       ELSE IF second = -1 THEN Trim(reply)
       ELSE Trim(Slice(reply, 0, first + 1))

IsString(v) == v.t = "str"

\* Faulty variant: any text status passes through.
NormalizeStatusLoose(st) == IF st.t = "str" THEN st ELSE Str(<<"En proceso">>)

\* evaluation.status === "Aprobado" ? "Aprobado" : "En proceso"
NormalizeStatus(st) ==
    IF st = Str(<<"Aprobado">>) THEN Str(<<"Aprobado">>) ELSE Str(<<"En proceso">>)

\* Faulty variant: Math.floor in place of Math.round.
MathFloor(x) ==
    CASE x.k = "rat" -> Int2Num(x.n \div x.d)
      [] x.k = "tiny" -> Int2Num(IF x.n < 0 THEN -1 ELSE 0)
      [] OTHER -> x
ClampScoreFloor(score) == MathMax(Int2Num(0), MathMin(Int2Num(100), MathFloor(score)))

\* Math.max(0, Math.min(100, Math.round(score)))
ClampScore(score) == MathMax(Int2Num(0), MathMin(Int2Num(100), MathRound(score)))

\* Number.isFinite(evaluation.score) ? evaluation.score : 0, then clamped
NormalizeScore(sc) == ClampScore(IF NumberIsFinite(sc) THEN sc ELSE Int2Num(0))

\* Array.isArray(x) ? x.filter((item) => typeof item === "string") : []
FilterStrings(x) == IF x.t = "arr" THEN Arr(SelectSeq(x.a, IsString)) ELSE Arr(<<>>)

\* !value || typeof value !== "object"
NotAnObject(value) == ~Truthy(value) \/ TypeOf(value) # "object"

normalizeEvaluation(value) ==
    LET evaluation == value
        summary == Get(evaluation, <<"summary">>)
    IN IF NotAnObject(value) THEN Null
       ELSE Obj(<< Member(<<"status">>, NormalizeStatus(Get(evaluation, <<"status">>))),
                   Member(<<"score">>, NormalizeScore(Get(evaluation, <<"score">>))),
                   Member(<<"weakConcepts">>, FilterStrings(Get(evaluation, <<"weakConcepts">>))),
                   Member(<<"nextActions">>, FilterStrings(Get(evaluation, <<"nextActions">>))),
                   Member(<<"summary">>,
                          IF TypeOf(summary) = "string" THEN summary ELSE Undefined) >>)

\* NextResponse.json(data, {status}): the body is the JSON text of data; it
\* is kept as the value a client reads back from that text.
NextResponseJson(data, status) ==
    [status |-> status, body |-> JsonParse(Stringify(data)).v]

\* Faulty variant: the request's key goes first.
ResolveApiKeyRequestFirst(environment, request) ==
    OrElse(Get(request, <<"apiKey">>), environment.OPENAI_API_KEY)

\* process.env.OPENAI_API_KEY || body.apiKey
ResolveApiKey(environment, request) ==
    OrElse(environment.OPENAI_API_KEY, Get(request, <<"apiKey">>))

\* body.model || process.env.OPENAI_MODEL || "gpt-4.1-mini"
ResolveModel(environment, request) ==
    OrElse(Get(request, <<"model">>), OrElse(environment.OPENAI_MODEL, Str(DEFAULT_MODEL)))

Segment(role, content) == [role |-> role, content |-> content]
System(content) == Segment(Str(<<"system">>), Str(content))

\* body.systemPrompt?.trim()
TrimmedPrompt(request) ==
    LET prompt == Get(request, <<"systemPrompt">>)
    IN IF Nullish(prompt) THEN Undefined ELSE Str(Trim(prompt.s))

RECURSIVE MapMessages(_)
\* messages.map((message) => ({role: message.role, content: message.content}))
MapMessages(messages) ==
    IF messages = <<>> THEN <<>>
    ELSE << Segment(Get(Head(messages), <<"role">>), Get(Head(messages), <<"content">>)) >>
         \o MapMessages(Tail(messages))

\* Faulty variant: the start instruction is pushed after the format instructions.
BuildInputStartLate(request) ==
    LET prompt == TrimmedPrompt(request)
        messages == Get(request, <<"messages">>)
    IN (IF Truthy(prompt) THEN << System(prompt.s) >> ELSE <<>>)
       \o << System(buildContext(Get(request, <<"taskConfig">>), Get(request, <<"student">>))) >>
       \o << System(FORMAT_INSTRUCTIONS) >>
       \o (IF Truthy(Get(request, <<"start">>)) THEN << System(START_INSTRUCTION) >> ELSE <<>>)
       \o (IF messages.t = "arr" THEN MapMessages(messages.a) ELSE <<>>)

\* The list `input` the route assembles for the model.
BuildInput(request) ==
    LET prompt == TrimmedPrompt(request)
        messages == Get(request, <<"messages">>)
    IN (IF Truthy(prompt) THEN << System(prompt.s) >> ELSE <<>>)
       \o << System(buildContext(Get(request, <<"taskConfig">>), Get(request, <<"student">>))) >>
       \o (IF Truthy(Get(request, <<"start">>)) THEN << System(START_INSTRUCTION) >> ELSE <<>>)
       \o << System(FORMAT_INSTRUCTIONS) >>
       \o (IF messages.t = "arr" THEN MapMessages(messages.a) ELSE <<>>)

\* Faulty variant: no fallback to the raw text.
SelectReplyOrEmpty(parsed, text) ==
    IF Truthy(parsed) /\ TypeOf(Get(parsed, <<"reply">>)) = "string"
    THEN Get(parsed, <<"reply">>).s ELSE <<>>

\* parsed && typeof parsed.reply === "string" ? parsed.reply : outputText
SelectReply(parsed, text) ==
    IF Truthy(parsed) /\ TypeOf(Get(parsed, <<"reply">>)) = "string"
    THEN Get(parsed, <<"reply">>).s ELSE text

\* The data of the success response: {text: reply, evaluation}.
SuccessData(reply, evaluation) ==
    Obj(<< Member(<<"text">>, Str(reply)), Member(<<"evaluation">>, evaluation) >>)

ErrorData(message) == Obj(<< Member(<<"error">>, Str(message)) >>)

\* Faulty variant: the fixed text whatever was caught.
CaughtMessageGeneric(error) == REQUEST_FAILED

\* error instanceof Error ? error.message : "OpenAI request failed"
CaughtMessage(error) == IF error.isError THEN error.message ELSE REQUEST_FAILED

(***************************************************************************)
(* Bounded inputs                                                          *)
(***************************************************************************)
\* MaxHistory: messages in a request; MaxReplyLen, MaxRawLen: atoms of a
\* reply and of a raw output; MaxTurns: fetches the page issues.
MaxHistory == 2
MaxReplyLen == 5
MaxRawLen == 4
MaxTurns == 2

RECURSIVE SeqsUpTo(_, _)
\* Every sequence over A of length at most n.
SeqsUpTo(A, n) ==
    IF n = 0 THEN {<<>>}
    ELSE LET shorter == SeqsUpTo(A, n - 1)
         IN shorter \cup {Append(q, a) : q \in shorter, a \in A}

\* The text of a JSON object from the texts of its members.
MemberText(key, valueText) == Quote(key) \o <<":">> \o valueText
ObjText(memberTexts) == <<"{">> \o Join(memberTexts, <<",">>) \o <<"}">>
\* No member, or the one member `key` for each value text.
Optional(key, valueTexts) == {<<>>} \cup {<< MemberText(key, x) >> : x \in valueTexts}

\* process.env
Envs ==
    { [OPENAI_API_KEY |-> Undefined, OPENAI_MODEL |-> Undefined],
      [OPENAI_API_KEY |-> Str(<<>>), OPENAI_MODEL |-> Str(<<"gpt-env">>)],
      [OPENAI_API_KEY |-> Str(<<"sk-env">>), OPENAI_MODEL |-> Undefined],
      [OPENAI_API_KEY |-> Str(<<"sk-env">>), OPENAI_MODEL |-> Str(<<"gpt-env">>)] }

\* Request bodies
ChatRequest(messages, systemPrompt, model, apiKey, taskConfig, student, start) ==
    Obj(<< Member(<<"messages">>, messages), Member(<<"systemPrompt">>, systemPrompt),
           Member(<<"model">>, model), Member(<<"apiKey">>, apiKey),
           Member(<<"taskConfig">>, taskConfig), Member(<<"student">>, student),
           Member(<<"start">>, start) >>)

TaskFields == << <<"topic">>, <<"objective">>, <<"subject">>, <<"grade">>, <<"durationMin">> >>
TaskValues == << <<"Ciclo", " ", "del", " ", "agua">>, <<"Comprender">>, <<"Ciencias">>,
                 <<"5to">>, <<"1", "0">> >>
StudentFields == << <<"name">>, <<"age">>, <<"course">>, <<"strengths">>, <<"challenges">> >>
StudentValues == << <<"Sofia">>, <<"1", "0">>, <<"5to", " ", "A">>, <<"Ejemplos">>,
                    <<"Vocabulario">> >>

\* The object holding the fields of `present`; the others are missing.
Profile(fields, values, present) ==
    Obj([i \in 1..Len(fields) |->
            Member(fields[i], IF i \in present THEN Str(values[i]) ELSE Undefined)])

\* One field set to the given value, the others present.
ProfileWith(fields, values, i, value) ==
    Obj([j \in 1..Len(fields) |-> Member(fields[j], IF j = i THEN value ELSE Str(values[j]))])

TaskConfigs ==
    {Undefined, Null}
    \cup {Profile(TaskFields, TaskValues, present) : present \in SUBSET (1..Len(TaskFields))}
    \cup {ProfileWith(TaskFields, TaskValues, 1, v) : v \in {Null, Str(<<>>)}}
Students ==
    {Undefined, Null}
    \cup {Profile(StudentFields, StudentValues, present) :
            present \in SUBSET (1..Len(StudentFields))}
    \cup {ProfileWith(StudentFields, StudentValues, 5, v) : v \in {Null, Str(<<>>)}}

BaseTask == Profile(TaskFields, TaskValues, 1..Len(TaskFields))
BaseStudent == Profile(StudentFields, StudentValues, 1..Len(StudentFields))

\* Messages as the page stores them (id, ts) and as it sends them.
Messages ==
    { Obj(<< Member(<<"id">>, Str(<<"1">>)), Member(<<"role">>, Str(<<"user">>)),
             Member(<<"content">>, Str(<<"hola">>)), Member(<<"ts">>, Int2Num(7)) >>),
      Obj(<< Member(<<"role">>, Str(<<"assistant">>)),
             Member(<<"content">>, Str(<<"por", " ", "que", "?">>)) >>) }
Histories == {Undefined} \cup {Arr(h) : h \in SeqsUpTo(Messages, MaxHistory)}
BaseHistory == Arr(<< Obj(<< Member(<<"role">>, Str(<<"user">>)),
                             Member(<<"content">>, Str(<<"hola">>)) >>) >>)

Prompts == {Undefined, Null, Str(<<>>), Str(<<" ", "\n">>), Str(<<"Eres", " ", "tutor">>),
            Str(<<"\n", " ", "Eres", " ", "tutor", " ">>)}
BasePrompt == Str(<<"Eres", " ", "TutorNeo", "\n">>)
Starts == {Undefined, Bool(FALSE), Bool(TRUE)}
ApiKeys == {Undefined, Str(<<>>), Str(<<"sk-req">>)}
Models == {Undefined, Str(<<>>), Str(<<"gpt-req">>)}

BaseRequest ==
    ChatRequest(BaseHistory, BasePrompt, Undefined, Undefined, BaseTask, BaseStudent,
                Bool(FALSE))

\* The requests explored: the base request varied in its credential and model,
\* in its task and student, and in its prompt, start flag and history.
Requests ==
    {ChatRequest(BaseHistory, BasePrompt, m, k, BaseTask, BaseStudent, Bool(FALSE)) :
        m \in Models, k \in ApiKeys}
    \cup {ChatRequest(BaseHistory, BasePrompt, Undefined, Undefined, t, u, Bool(FALSE)) :
            t \in TaskConfigs, u \in {Undefined, BaseStudent}}
    \cup {ChatRequest(BaseHistory, BasePrompt, Undefined, Undefined, t, u, Bool(FALSE)) :
            t \in {Undefined, BaseTask}, u \in Students}
    \cup {ChatRequest(h, q, Undefined, Undefined, BaseTask, BaseStudent, b) :
            h \in Histories, q \in Prompts, b \in Starts}

\* Raw model outputs
ReplyTexts ==
    SeqsUpTo({"a", "?", " "}, MaxReplyLen)
    \cup { <<"\n", "dijo", " ", "\"", "si", "\"", "?", "\n", "y", " ", "tu", "?", " ">>,
           <<"{", "a", "?", "}", "?">>, <<"a", "\\", "b">> }
ReplyValueTexts ==
    {Stringify(Str(r)) : r \in ReplyTexts} \cup { <<"5">>, <<"null">>, <<"[", "]">> }
FewReplyValueTexts ==
    { Stringify(Str(<<"Que", " ", "pasa", "?">>)), Stringify(Str(<<"a", "?", "b", "?">>)) }

StatusTexts ==
    { Stringify(Str(<<"Aprobado">>)), Stringify(Str(<<"En", " ", "proceso">>)),
      Stringify(Str(<<"aprobado">>)), Stringify(Str(<<"Aprobado", " ">>)),
      Stringify(Str(<<>>)), <<"1">>, <<"null">>, <<"true">> }
ScoreTexts ==
    { Stringify(Num("rat", n, 1)) : n \in {-5, -1, 0, 1, 50, 99, 100, 101, 137, 145} }
    \cup { Stringify(Num("rat", n, 10)) :
             n \in {-15, -6, -5, -4, 4, 5, 6, 15, 25, 994, 995, 996, 1004, 1005} }
    \cup { <<"7", ".", "2", "5">>, <<"7", ".", "7", "5">>, <<"5", "e", "1">>,
           <<"5", "0", "0", "e", "-", "1">>, <<"1", "E", "+", "3", "0", "0">>,
           <<"-", "1", "e", "3", "0", "0">>, <<"1", "e", "9", "9", "9">>,
           <<"-", "1", "e", "9", "9", "9">>, <<"1", "e", "-", "4", "0", "0">>,
           <<"9", "e", "-", "2", "0">>,
           <<"\"", "5", "0", "\"">>, <<"true">>, <<"null">>, <<"[", "5", "0", "]">>,
           <<"{", "}">> }
ListTexts ==
    { <<"[", "]">>, <<"null">>, Stringify(Str(<<"evaporacion">>)),
      Stringify(Arr(<< Str(<<"evaporacion">>), Int2Num(1), Str(<<"lluvia">>), Null,
                       Arr(<<>>) >>)) }
SummaryTexts == { Stringify(Str(<<"Buen", " ", "avance">>)), <<"7">>, <<"null">> }
BaseStatus == << MemberText(<<"status">>, Stringify(Str(<<"Aprobado">>))) >>
BaseScore == << MemberText(<<"score">>, <<"1", "4", "5">>) >>

\* The texts of the evaluation member: objects, and values that are none.
EvaluationTexts ==
    { ObjText(st \o BaseScore) : st \in Optional(<<"status">>, StatusTexts) }
    \cup { ObjText(BaseStatus \o sc) : sc \in Optional(<<"score">>, ScoreTexts) }
    \cup { ObjText(st \o sc) :
             st \in Optional(<<"status">>, {<<"null">>}),
             sc \in Optional(<<"score">>, {<<"null">>, <<"-", "3">>}) }
    \cup { ObjText(BaseStatus \o BaseScore \o wc \o na) :
             wc \in Optional(<<"weakConcepts">>, ListTexts),
             na \in Optional(<<"nextActions">>, ListTexts) }
    \cup { ObjText(BaseStatus \o BaseScore \o su) : su \in Optional(<<"summary">>, SummaryTexts) }
    \cup { <<"null">>, <<"0">>, <<"5">>, <<"\"", "\"">>, <<"\"", "Aprobado", "\"">>,
           <<"true">>, <<"false">>, <<"[", "]">>, <<"[", "1", "]">>,
           <<"[">> \o ObjText(BaseStatus \o BaseScore) \o <<"]">> }
BaseEvaluation == << MemberText(<<"evaluation">>, ObjText(BaseStatus \o BaseScore)) >>
BaseReply == << MemberText(<<"reply">>, Stringify(Str(<<"Que", " ", "pasa", "?">>))) >>

\* {reply, evaluation} documents, each member present or missing.
Documents ==
    { ObjText(r \o BaseEvaluation) : r \in Optional(<<"reply">>, ReplyValueTexts) }
    \cup { ObjText(BaseReply \o e) : e \in Optional(<<"evaluation">>, EvaluationTexts) }
    \cup { ObjText(e \o r) : r \in Optional(<<"reply">>, FewReplyValueTexts),
                             e \in Optional(<<"evaluation">>, {<<"null">>, <<"[", "]">>}) }
    \cup { <<"{", " ", "\"", "reply", "\"", " ", ":", "\n", "\"", "a", "?", "\"", " ", ",",
             "\"", "reply", "\"", ":", "\"", "b", "?", "c", "?", "\"", "\n", "}">> }
FewDocuments ==
    { ObjText(BaseReply \o BaseEvaluation), ObjText(BaseEvaluation), ObjText(BaseReply),
      ObjText(<< MemberText(<<"reply">>, Stringify(Str(<<"a", "?", "b", "?">>))) >>
              \o BaseEvaluation) }

Prefixes ==
    { <<>>, <<"Muy", " ", "bien", ",", " ", "que", " ", "pasa", "?", " ">>, <<"a", "{", "b", " ">>,
      <<"}", " ">>, <<"{", "}", "\n">>, <<"{", "\"", "x", "\"", ":">> }
Suffixes ==
    { <<>>, <<" ", "fin", "?">>, <<" ", "}">>, <<" ", "{">>, <<"\n">>, <<"}">> }

OutputTexts ==
    Documents
    \cup { pre \o doc \o suf : pre \in Prefixes, doc \in FewDocuments, suf \in Suffixes }
    \cup SeqsUpTo({"a", "?", " ", "{", "}"}, MaxRawLen)
    \cup { <<"No", " ", "tengo", " ", "respuesta", ".">>, <<"{", "a", "}">>,
           <<" ", "a", "?", " ", "b", "?", " ">> }

\* What client.responses.create resolves to: response.output_text.
AllOutputs == {Undefined} \cup {Str(x) : x \in OutputTexts}
\* A document whose evaluation holds a summary and a weak concept.
FullDocument ==
    ObjText(<< MemberText(<<"reply">>, Stringify(Str(<<"Bien">>))),
               MemberText(<<"evaluation">>,
                  ObjText(<< MemberText(<<"status">>, Stringify(Str(<<"En proceso">>))),
                             MemberText(<<"score">>, <<"4", "0">>),
                             MemberText(<<"weakConcepts">>,
                                        Stringify(Arr(<< Str(<<"evaporacion">>) >>))),
                             MemberText(<<"summary">>,
                                        Stringify(Str(<<"Buen", " ", "avance">>))) >>)) >>)
FewOutputs ==
    { Undefined, Str(<<"No", " ", "tengo", " ", "respuesta", ".">>),
      Str(ObjText(BaseReply \o BaseEvaluation)), Str(FullDocument) }

\* What it rejects with: an Error with a message, or another thrown value.
Failures ==
    { [isError |-> TRUE, message |-> <<"401", " ", "Incorrect", " ", "API", " ", "key">>],
      [isError |-> TRUE, message |-> <<>>],
      [isError |-> FALSE, message |-> <<>>] }

\* The normalizer never reads the request: every output is explored against
\* the base request, and a few against each of the others.
OutputsFor(request) == IF request = BaseRequest THEN AllOutputs ELSE FewOutputs

(***************************************************************************)
(* The state of one POST and its steps                                     *)
(***************************************************************************)
VARIABLES
    env,         \* process.env
    pc,          \* "idle", "awaiting" (responses.create outstanding), "done"
    body,        \* await req.json()
    apiKey,      \* the credential resolved
    model,       \* the model identifier resolved
    input,       \* the segment list
    calls,       \* the calls of client.responses.create, in order
    outputText,  \* response.output_text || ""
    parsed,      \* extractJson(outputText)
    rawReply,    \* the reply selected before enforceSingleQuestion
    caught,      \* what the catch block caught
    response     \* what POST returns: [status, body]

routeVars == <<env, pc, body, apiKey, model, input, calls, outputText, parsed, rawReply,
               caught, response>>

(***************************************************************************)
(* The state of the page (src/app/page.tsx)                                *)
(***************************************************************************)
VARIABLES
    page,          \* "unmounted", "mounted", "crashed" (a render or an effect threw)
    localStorage,  \* window.localStorage: key -> null or the text stored
    written,       \* the keys localStorage.setItem was called with
    value,         \* key -> the value of its useLocalStorageState, as rendered
    hydrated,      \* key -> its hydrated flag, as rendered
    queued,        \* key -> the setValue not rendered yet, or NoUpdate
    effects,       \* the effects of the last commit still to run, in order
    inputText,     \* the text box (the state named input)
    isSending,
    apiError,
    outstanding,   \* the fetches issued and not settled, oldest first
    fetches,       \* how many fetches were issued
    now            \* Date.now()

pageVars == <<page, localStorage, written, value, hydrated, queued, effects, inputText,
              isSending, apiError, outstanding, fetches, now>>

vars == <<routeVars, pageVars>>

\* The keys, in the order of the hooks (lines 121-147).
KeyTask == "tutorneo.taskConfig"
KeyStudent == "tutorneo.studentProfile"
KeyPrompt == "tutorneo.systemPrompt"
KeyMessages == "tutorneo.messages"
KeyEvaluation == "tutorneo.evaluation"
KeyApi == "tutorneo.api"
KeyTheme == "tutorneo.theme"
HookKeys == <<KeyTask, KeyStudent, KeyPrompt, KeyMessages, KeyEvaluation, KeyApi, KeyTheme>>
Keys == {HookKeys[i] : i \in 1..Len(HookKeys)}

DEFAULT_TASK == BaseTask
DEFAULT_STUDENT == BaseStudent
DEFAULT_PROMPT == Str(<<"Eres", " ", "TutorNeo", ",", " ", "un", " ", "tutor", ".">>)
DEFAULT_API ==
    Obj(<< Member(<<"useLiveApi">>, Bool(TRUE)), Member(<<"apiKey">>, Str(<<>>)),
           Member(<<"model">>, Str(<<"gpt-4.1-mini">>)) >>)
SEED_MESSAGES == Arr(<<>>)

\* The initialValue each hook is called with.
InitialValue(key) ==
    CASE key = KeyTask -> DEFAULT_TASK
      [] key = KeyStudent -> DEFAULT_STUDENT
      [] key = KeyPrompt -> DEFAULT_PROMPT
      [] key = KeyMessages -> SEED_MESSAGES
      [] key = KeyEvaluation -> Null
      [] key = KeyApi -> DEFAULT_API
      [] key = KeyTheme -> Str(<<"light">>)

NoUpdate == [t |-> "none"]
NothingQueued == [key \in Keys |-> NoUpdate]

\* The page before it is mounted, over the given storage: every hook holds
\* its initialValue and hydrated = false (lines 92-93, 150-152).
PageUnmounted(storage) ==
    /\ page = "unmounted"
    /\ localStorage = storage
    /\ written = {}
    /\ value = [key \in Keys |-> InitialValue(key)]
    /\ hydrated = [key \in Keys |-> FALSE]
    /\ queued = NothingQueued
    /\ effects = <<>>
    /\ inputText = <<>>
    /\ isSending = FALSE
    /\ apiError = <<>>
    /\ outstanding = <<>>
    /\ fetches = 0
    /\ now = 1

EmptyStorage == [key \in Keys |-> Null]

\* The route before a request.
RouteIdle ==
    /\ pc = "idle"
    /\ body = Undefined
    /\ apiKey = Undefined
    /\ model = Undefined
    /\ input = <<>>
    /\ calls = <<>>
    /\ outputText = Undefined
    /\ parsed = Undefined
    /\ rawReply = Undefined
    /\ caught = Undefined
    /\ response = Undefined

Init ==
    /\ env \in Envs
    /\ RouteIdle
    /\ PageUnmounted(EmptyStorage)

\* POST up to its first return or to the awaited call (lines 109-156).
Receive(request) ==
    /\ pc = "idle"
    /\ LET key == ResolveApiKey(env, request)
       IN /\ body' = request
          /\ apiKey' = key
          /\ IF ~Truthy(key)
             THEN /\ response' = NextResponseJson(ErrorData(MISSING_KEY), 400)
                  /\ pc' = "done"
                  /\ UNCHANGED <<model, input, calls>>
             ELSE /\ model' = ResolveModel(env, request)
                  /\ input' = BuildInput(request)
                  /\ calls' = Append(calls, [apiKey |-> key,
                                             model |-> ResolveModel(env, request),
                                             input |-> BuildInput(request)])
                  /\ pc' = "awaiting"
                  /\ UNCHANGED response
    /\ UNCHANGED <<env, outputText, parsed, rawReply, caught>>

\* A request from any client.
POST ==
    /\ pc = "idle"
    /\ \E request \in Requests : Receive(request)
    /\ UNCHANGED pageVars

\* The call resolves: the rest of the try block (lines 158-168).
CreateResolves ==
    /\ pc = "awaiting"
    /\ \E output \in OutputsFor(body) :
         LET text == OrElse(output, Str(<<>>))
             json == extractJson(text.s)
             selected == SelectReply(json, text.s)
         IN /\ outputText' = text
            /\ parsed' = json
            /\ rawReply' = Str(selected)
            /\ response' = NextResponseJson(
                   SuccessData(enforceSingleQuestion(selected),
                               normalizeEvaluation(Get(json, <<"evaluation">>))), 200)
    /\ pc' = "done"
    /\ UNCHANGED <<env, body, apiKey, model, input, calls, caught>>
    /\ UNCHANGED pageVars

\* The call rejects: the catch block (lines 169-177).
CreateRejects ==
    /\ pc = "awaiting"
    /\ \E error \in Failures :
         /\ caught' = error
         /\ response' = NextResponseJson(ErrorData(CaughtMessage(error)), 500)
    /\ pc' = "done"
    /\ UNCHANGED <<env, body, apiKey, model, input, calls, outputText, parsed, rawReply>>
    /\ UNCHANGED pageVars

Next == POST \/ CreateResolves \/ CreateRejects

Spec == Init /\ [][Next]_vars

(***************************************************************************)
(* Properties                                                              *)
(***************************************************************************)
CountOf(s, c) == Cardinality({i \in 1..Len(s) : s[i] = c})
AllWhitespace(s) == \A i \in 1..Len(s) : IsWhitespace(s[i])

\* t is s without its leading and trailing white space, nothing else removed.
IsTrimOf(t, s) ==
    /\ t # <<>> => ~IsWhitespace(t[1]) /\ ~IsWhitespace(t[Len(t)])
    /\ \E lead \in 0..Len(s) :
         /\ lead + Len(t) <= Len(s)
         /\ SubSeq(s, lead + 1, lead + Len(t)) = t
         /\ AllWhitespace(SubSeq(s, 1, lead))
         /\ AllWhitespace(SubSeq(s, lead + Len(t) + 1, Len(s)))

\* The part of s up to and including its first c.
UpToFirst(s, c) == SubSeq(s, 1, SetMin({i \in 1..Len(s) : s[i] = c}))

Succeeded == pc = "done" /\ response.status = 200
ReturnedText == Get(response.body, <<"text">>).s
ReturnedEvaluation == Get(response.body, <<"evaluation">>)
Candidate == Get(parsed, <<"evaluation">>)

\* C1: the returned text holds at most one "?"; when the selected reply holds
\* two or more, the returned text is the reply cut right after its first "?"
\* (and trimmed), so it ends with that "?".
C1_AtMostOneQuestion ==
    Succeeded =>
        /\ CountOf(ReturnedText, "?") <= 1
        /\ CountOf(rawReply.s, "?") >= 2 =>
             /\ IsTrimOf(ReturnedText, UpToFirst(rawReply.s, "?"))
             /\ ReturnedText[Len(ReturnedText)] = "?"

\* A reply with two "?" and text between and after them was cut.
C1_Witness ==
    /\ Succeeded
    /\ CountOf(rawReply.s, "?") >= 2
    /\ Len(ReturnedText) > 1
    /\ Len(ReturnedText) + 1 < Len(rawReply.s)
    /\ rawReply.s[Len(rawReply.s)] = "a"

\* C2: a selected reply with zero or one "?" is returned unchanged except for
\* the white space at its two ends.
C2_OnlyTrimmed ==
    (Succeeded /\ CountOf(rawReply.s, "?") <= 1) => IsTrimOf(ReturnedText, rawReply.s)

\* A reply with one "?", text after it and white space at both ends.
C2_Witness ==
    /\ Succeeded
    /\ CountOf(rawReply.s, "?") = 1
    /\ Len(rawReply.s) >= 4
    /\ IsWhitespace(rawReply.s[1]) /\ IsWhitespace(rawReply.s[Len(rawReply.s)])
    /\ \E i \in 1..Len(ReturnedText) - 1 : ReturnedText[i] = "?"

\* The integers nearest to the exact number x = n/d.
Nearest(x) ==
    LET below == x.n \div x.d
        dist(r) == IF x.n - r * x.d < 0 THEN r * x.d - x.n ELSE x.n - r * x.d
    IN {r \in (below - 1)..(below + 1) : 2 * dist(r) <= x.d}
Clamp(r) == IF r < 0 THEN 0 ELSE IF r > 100 THEN 100 ELSE r

\* C3: the score of a returned evaluation record is an integer of 0..100: a
\* finite number rounded to a nearest integer and clamped to the nearer
\* bound, and 0 for anything that is not a finite number.
C3_ScoreClamped ==
    (Succeeded /\ ReturnedEvaluation # Null) =>
        LET score == Get(ReturnedEvaluation, <<"score">>)
            given == Get(Candidate, <<"score">>)
        IN /\ score.t = "num" /\ score.k = "rat" /\ score.d = 1
           /\ score.n >= 0 /\ score.n <= 100
           /\ CASE given.t = "num" /\ given.k = "rat" ->
                       \E r \in Nearest(given) : score.n = Clamp(r)
                [] given.t = "num" /\ given.k = "large" ->
                       score.n = IF given.n > 0 THEN 100 ELSE 0
                [] OTHER -> score.n = 0

\* A score above the range was clamped to 100.
C3_Witness ==
    /\ Succeeded /\ ReturnedEvaluation # Null
    /\ Get(Candidate, <<"score">>) = Int2Num(137)
    /\ Get(ReturnedEvaluation, <<"score">>) = Int2Num(100)

\* C4: the status of a returned evaluation record is "Aprobado" or "En
\* proceso", and "Aprobado" exactly when the status given is that literal.
C4_StatusEnum ==
    (Succeeded /\ ReturnedEvaluation # Null) =>
        LET status == Get(ReturnedEvaluation, <<"status">>)
        IN /\ status \in {Str(<<"Aprobado">>), Str(<<"En proceso">>)}
           /\ status = Str(<<"Aprobado">>) <=> Get(Candidate, <<"status">>) = Str(<<"Aprobado">>)

\* Another text status collapsed to "En proceso".
C4_Witness ==
    /\ Succeeded /\ ReturnedEvaluation # Null
    /\ Get(Candidate, <<"status">>) = Str(<<"aprobado">>)
    /\ Get(ReturnedEvaluation, <<"status">>) = Str(<<"En proceso">>)

\* Extraction fails on the text: no "{", no "}", the last "}" not after the
\* first "{", or the span between them is not JSON.
ExtractionFails(text) ==
    LET opens == {i \in 1..Len(text) : text[i] = "{"}
        closes == {i \in 1..Len(text) : text[i] = "}"}
    IN \/ opens = {}
       \/ closes = {}
       \/ SetMax(closes) <= SetMin(opens)
       \/ ~JsonParse(SubSeq(text, SetMin(opens), SetMax(closes))).ok

\* The raw text with the single-question cut and the trimming applied.
IsCutOf(t, raw) ==
    IF CountOf(raw, "?") >= 2 THEN IsTrimOf(t, UpToFirst(raw, "?")) ELSE IsTrimOf(t, raw)

\* C5: when extraction fails on the raw output, the call still succeeds: the
\* text returned is the raw output cut and trimmed, and the evaluation null.
C5_MalformedDegrades ==
    (pc = "done" /\ outputText # Undefined /\ ExtractionFails(outputText.s)) =>
        /\ response.status = 200
        /\ IsCutOf(ReturnedText, outputText.s)
        /\ ReturnedEvaluation = Null

\* A raw output whose brace span is not JSON came back as text.
C5_Witness ==
    /\ Succeeded /\ outputText # Undefined
    /\ ExtractionFails(outputText.s)
    /\ IndexOf(outputText.s, "{") # -1 /\ IndexOf(outputText.s, "{") < LastIndexOf(outputText.s, "}")
    /\ Len(ReturnedText) > 3

\* A {reply, evaluation} object: a text reply and an evaluation object.
WellFormed(v) ==
    v.t = "obj" /\ Get(v, <<"reply">>).t = "str" /\ Get(v, <<"evaluation">>).t = "obj"

\* The reply and the evaluation returned are those of the document doc.
TakenFrom(doc) ==
    /\ parsed = doc
    /\ rawReply = Get(doc, <<"reply">>)
    /\ IsCutOf(ReturnedText, Get(doc, <<"reply">>).s)
    /\ Candidate = Get(doc, <<"evaluation">>)
    /\ ReturnedEvaluation # Null
    /\ Get(ReturnedEvaluation, <<"status">>) = Str(<<"Aprobado">>)
         <=> Get(Get(doc, <<"evaluation">>), <<"status">>) = Str(<<"Aprobado">>)

\* The spans text[i..j] of the raw output that are a {reply, evaluation} object.
Embedded(text) ==
    { span \in {i \in 1..Len(text) : text[i] = "{"} \X {j \in 1..Len(text) : text[j] = "}"} :
        /\ span[1] < span[2]
        /\ JsonParse(SubSeq(text, span[1], span[2])).ok
        /\ WellFormed(JsonParse(SubSeq(text, span[1], span[2])).v) }

\* C6 as claimed: a {reply, evaluation} object embedded in the raw output
\* after any prefix and before any suffix is the one recovered, and the reply
\* and evaluation returned are taken from it.
C6_EmbeddedRecovered ==
    Succeeded =>
        \A span \in Embedded(outputText.s) :
            TakenFrom(JsonParse(SubSeq(outputText.s, span[1], span[2])).v)

\* C6 as amended: the same, for a prefix that holds no "{" and a suffix that
\* holds no "}".
C6_EmbeddedRecoveredNoBraces ==
    Succeeded =>
        \A span \in Embedded(outputText.s) :
            (/\ \A i \in 1..(span[1] - 1) : outputText.s[i] # "{"
             /\ \A j \in (span[2] + 1)..Len(outputText.s) : outputText.s[j] # "}")
            => TakenFrom(JsonParse(SubSeq(outputText.s, span[1], span[2])).v)

\* An object was recovered from between a prefix holding a "?" and a suffix.
C6_Witness ==
    /\ Succeeded
    /\ \E span \in Embedded(outputText.s) :
         /\ span[1] > 1 /\ span[2] < Len(outputText.s)
         /\ \E i \in 1..(span[1] - 1) : outputText.s[i] = "?"
         /\ parsed = JsonParse(SubSeq(outputText.s, span[1], span[2])).v
         /\ ReturnedEvaluation # Null

\* C7 as claimed: the evaluation returned is null exactly when the candidate
\* is missing or is no JSON object (null, number, string, boolean, array).
C7_NullUnlessObject ==
    Succeeded => (ReturnedEvaluation = Null <=> Candidate.t # "obj")

\* The request parts the segment list depends on.
SentInput == calls[1].input
History == IF Get(body, <<"messages">>).t = "arr" THEN Get(body, <<"messages">>).a ELSE <<>>
HasPrompt ==
    Get(body, <<"systemPrompt">>).t = "str" /\ ~AllWhitespace(Get(body, <<"systemPrompt">>).s)
HasStart == Get(body, <<"start">>) = Bool(TRUE)
ContextIndex == IF HasPrompt THEN 2 ELSE 1
FormatIndex == ContextIndex + (IF HasStart THEN 2 ELSE 1)

\* C8: the segment list sent is the trimmed system prompt (only if not
\* blank), the context block, the start instruction (only if start is set),
\* the format instructions, then every message of the history in its order,
\* as role and content, and nothing else.
C8_SegmentOrder ==
    calls # <<>> =>
        /\ Len(SentInput) = FormatIndex + Len(History)
        /\ HasPrompt =>
             /\ SentInput[1].role = Str(<<"system">>)
             /\ IsTrimOf(SentInput[1].content.s, Get(body, <<"systemPrompt">>).s)
        /\ SentInput[ContextIndex] =
             System(buildContext(Get(body, <<"taskConfig">>), Get(body, <<"student">>)))
        /\ HasStart => SentInput[ContextIndex + 1] = System(START_INSTRUCTION)
        /\ SentInput[FormatIndex] = System(FORMAT_INSTRUCTIONS)
        /\ \A i \in 1..Len(History) :
             SentInput[FormatIndex + i] =
                 [role |-> Get(History[i], <<"role">>), content |-> Get(History[i], <<"content">>)]

\* A prompt, the start instruction and a history of two different messages,
\* the first one stored with an id, were sent.
C8_Witness ==
    /\ calls # <<>>
    /\ HasPrompt /\ HasStart
    /\ Len(History) = 2 /\ History[1] # History[2]
    /\ Get(History[1], <<"id">>) # Undefined
    /\ Len(SentInput) = 6

\* The line of one field: its text, or "N/D" when it is missing.
ExpectedLine(label, object, key, tail) ==
    <<label>> \o (IF Get(object, key).t = "str" THEN Get(object, key).s ELSE ND) \o tail
ExpectedTaskLines(task) ==
    << ExpectedLine("- Tema: ", task, <<"topic">>, <<>>),
       ExpectedLine("- Objetivo: ", task, <<"objective">>, <<>>),
       ExpectedLine("- Materia: ", task, <<"subject">>, <<>>),
       ExpectedLine("- Grado: ", task, <<"grade">>, <<>>),
       ExpectedLine("- Duracion estimada: ", task, <<"durationMin">>, <<" min">>) >>
ExpectedStudentLines(student) ==
    << ExpectedLine("- Nombre: ", student, <<"name">>, <<>>),
       ExpectedLine("- Edad: ", student, <<"age">>, <<>>),
       ExpectedLine("- Curso: ", student, <<"course">>, <<>>),
       ExpectedLine("- Fortalezas: ", student, <<"strengths">>, <<>>),
       ExpectedLine("- Dificultades: ", student, <<"challenges">>, <<>>) >>
ContextSent == SentInput[ContextIndex].content.s

\* C9 as claimed: the context block lists the five task fields and then the
\* five student fields, "N/D" for each missing one, also when the whole task
\* configuration or the whole student object is missing.
C9_AllFieldsListed ==
    calls # <<>> =>
        ContextSent = Join(<< <<"Contexto de tarea:">> >>
                           \o ExpectedTaskLines(Get(body, <<"taskConfig">>))
                           \o << <<"Perfil del alumno:">> >>
                           \o ExpectedStudentLines(Get(body, <<"student">>)), <<"\n">>)

\* C9 as amended: the five lines of a section are listed, "N/D" for each
\* missing field, when its object is present; when the whole object is
\* missing, the section is its heading alone.
C9_FieldsListedWhenPresent ==
    calls # <<>> =>
        LET task == Get(body, <<"taskConfig">>)
            student == Get(body, <<"student">>)
        IN ContextSent =
               Join(<< <<"Contexto de tarea:">> >>
                    \o (IF task.t = "obj" THEN ExpectedTaskLines(task) ELSE <<>>)
                    \o << <<"Perfil del alumno:">> >>
                    \o (IF student.t = "obj" THEN ExpectedStudentLines(student) ELSE <<>>),
                    <<"\n">>)

\* A task with its topic alone and no student object were sent.
C9_Witness ==
    /\ calls # <<>>
    /\ Get(body, <<"taskConfig">>) = Profile(TaskFields, TaskValues, {1})
    /\ Get(body, <<"student">>) = Undefined
    /\ CountOf(ContextSent, "N/D") = 4

Present(key) == key.t = "str" /\ key.s # <<>>

\* C10: with no credential in the environment and none in the request, POST
\* answers 400 with {error} and calls the model never; a call that is made
\* carries a credential, the environment's when there is one, else the
\* request's.
C10_CredentialRequired ==
    /\ (pc # "idle" /\ ~Present(env.OPENAI_API_KEY) /\ ~Present(Get(body, <<"apiKey">>))) =>
         /\ pc = "done"
         /\ response = [status |-> 400, body |-> ErrorData(MISSING_KEY)]
         /\ calls = <<>>
    /\ calls # <<>> =>
         /\ Len(calls) = 1
         /\ Present(calls[1].apiKey)
         /\ calls[1].apiKey = IF Present(env.OPENAI_API_KEY) THEN env.OPENAI_API_KEY
                              ELSE Get(body, <<"apiKey">>)

\* A request with an empty key under an environment with an empty key was
\* refused.
C10_Witness ==
    /\ pc = "done"
    /\ env.OPENAI_API_KEY = Str(<<>>) /\ Get(body, <<"apiKey">>) = Str(<<>>)
    /\ response.status = 400
    /\ calls = <<>>

\* C11: when the model call fails, POST has called the model once and no
\* more, and answers 500 with a body that is {error} alone: the message of
\* the Error caught, unchanged (the fixed text "OpenAI request failed" when
\* what was caught is no Error and so has no message), with no text and no
\* evaluation field.
C11_UpstreamFailure ==
    (pc = "done" /\ caught # Undefined) =>
        /\ Len(calls) = 1
        /\ response.status = 500
        /\ response.body =
               Obj(<< Member(<<"error">>,
                             Str(IF caught.isError THEN caught.message ELSE REQUEST_FAILED)) >>)
        /\ Get(response.body, <<"text">>) = Undefined
        /\ Get(response.body, <<"evaluation">>) = Undefined

\* The model call failed with an Error that carries a message.
C11_Witness ==
    /\ pc = "done"
    /\ caught # Undefined /\ caught.isError /\ caught.message # <<>>
    /\ Get(response.body, <<"error">>) = Str(caught.message)
    /\ Len(calls) = 1

(***************************************************************************)
(* The page (src/app/page.tsx): the storage hook and the chat handlers.    *)
(* The task and student forms (their drafts) and the theme button are not  *)
(* part of it.  React runs the effects of a commit before it handles the   *)
(* next event, and renders the updates of a handler before the next event: *)
(* a handler is one step, rendered and saved; the effects of mounting run  *)
(* one by one.                                                             *)
(***************************************************************************)
\* safeParse(value, fallback) (lines 82-89); value is null or the text stored.
safeParse(stored, fallback) ==
    IF ~Truthy(stored) THEN fallback
    ELSE LET result == JsonParse(stored.s)
         IN IF result.ok THEN result.v ELSE fallback

\* The values as rendered.
taskConfig == value[KeyTask]
student == value[KeyStudent]
systemPrompt == value[KeyPrompt]
messages == value[KeyMessages]
evaluation == value[KeyEvaluation]
apiConfig == value[KeyApi]

\* {...object, key: v}
Spread(object, key, v) ==
    LET members == IF object.t = "obj" THEN object.m ELSE <<>>
    IN IF \E i \in 1..Len(members) : members[i].k = key
       THEN Obj([i \in 1..Len(members) |->
                    IF members[i].k = key THEN Member(key, v) ELSE members[i]])
       ELSE Obj(Append(members, Member(key, v)))

\* Effects
LoadOf(key) == [kind |-> "load", key |-> key]
SaveOf(key) == [kind |-> "save", key |-> key]
LiveOf == [kind |-> "live", key |-> KeyApi]

\* The effects of the first commit: of each hook its load and its save
\* (lines 96-107), then the effect that keeps the live API on (163-167).
MountEffects ==
    [i \in 1..(2 * Len(HookKeys)) |->
        IF i % 2 = 1 THEN LoadOf(HookKeys[(i + 1) \div 2]) ELSE SaveOf(HookKeys[i \div 2])]
    \o << LiveOf >>

\* The effects of a commit in which the hooks of `changed` got a new value
\* or flag: their saves, then the live-API effect if apiConfig is new.
CommitEffects(changed) ==
    LET keys == SelectSeq(HookKeys, LAMBDA key : key \in changed)
    IN [i \in 1..Len(keys) |-> SaveOf(keys[i])]
       \o (IF KeyApi \in changed THEN << LiveOf >> ELSE <<>>)

\* Faulty variant: the save does not wait for the load.
ShouldSaveAlways(flag) == TRUE

\* if (!hydrated || typeof window === "undefined") return;  (line 105)
ShouldSave(flag) == flag

\* The storage after the save effects of the hooks of `changed` (104-107).
AfterSave(storage, flags, values, changed) ==
    [key \in Keys |->
        IF key \in changed /\ ShouldSave(flags[key])
        THEN Str(Stringify(values[key])) ELSE storage[key]]

\* The keys among `changed` whose save effect calls setItem.
SavedKeys(flags, changed) == {key \in changed : ShouldSave(flags[key])}

\* What render reads of the values and throws on: taskConfig.topic of null
\* (line 590), messages.length of null and messages.map of what is no array
\* (594, 617), .map of a text in the place of a list (709-726).
RenderThrows(values) ==
    \/ values[KeyTask].t = "null"
    \/ values[KeyMessages].t # "arr"
    \/ \E field \in {<<"weakConcepts">>, <<"nextActions">>} :
         LET list == Get(values[KeyEvaluation], field)
         IN list.t = "str" /\ list.s # <<>>

LIVE_OFF_SEND == <<"La API en vivo esta desactivada. Activala para responder.">>
LIVE_OFF_START == <<"La API en vivo esta desactivada. Activala para iniciar.">>
NO_REPLY == <<"Sin", " ", "respuesta">>
API_ERROR == <<"Error", " ", "en", " ", "la", " ", "API">>
FAILED_TO_FETCH == <<"Failed", " ", "to", " ", "fetch">>

\* makeId(): `${Date.now()}-${random}`; the random part is one atom.
makeId(time) == Str(NatAtoms(time) \o <<"-", "f3a9">>)

Message(role, content, time) ==
    Obj(<< Member(<<"id">>, makeId(time)), Member(<<"role">>, Str(<<role>>)),
           Member(<<"content">>, Str(content)), Member(<<"ts">>, Int2Num(time)) >>)

\* nextMessages.map((message) => ({role, content}))  (lines 200-203)
ToWire(list) ==
    Arr([i \in 1..Len(list) |->
            Obj(<< Member(<<"role">>, Get(list[i], <<"role">>)),
                   Member(<<"content">>, Get(list[i], <<"content">>)) >>)])

\* The body requestTutorReply sends (lines 199-210), as text.
RequestText(nextMessages, start) ==
    Stringify(ChatRequest(ToWire(nextMessages.a), systemPrompt, Get(apiConfig, <<"model">>),
                          Get(apiConfig, <<"apiKey">>), taskConfig, student, Bool(start)))

\* Faulty variant: the history is dropped when nothing is in it (the message
\* of a call is lost after a reset).
AppendMessageUnlessCleared(prev, message) ==
    IF prev.a = <<>> THEN prev ELSE Arr(Append(prev.a, message))

\* Faulty variant: a send while a call is outstanding goes through.
CanSendWhileSending(text, sending) == Trim(text) # <<>>

\* The negation of line 221: !input.trim() || isSending
CanSend(text, sending) == Trim(text) # <<>> /\ ~sending

\* Faulty variant: the new message takes the place of the history.
AppendMessageOnly(prev, message) == Arr(<< message >>)

\* [...prev, message]  (lines 236, 250, 286)
AppendMessage(prev, message) == Arr(Append(prev.a, message))

\* Faulty variant: the text of the response as it is.
ReplyTextBare(data) == Get(data, <<"text">>).s

\* data.text || "Sin respuesta"  (lines 242, 278)
ReplyText(data) == OrElse(Get(data, <<"text">>), Str(NO_REPLY)).s

\* Faulty variant: the members of the previous record stay under the new ones.
NextEvaluationMerged(previous, candidate, time) ==
    IF Truthy(candidate)
    THEN Obj((IF previous.t = "obj"
              THEN SelectSeq(previous.m,
                             LAMBDA old : \A i \in 1..Len(candidate.m) :
                                             candidate.m[i].k # old.k /\ old.k # <<"updatedAt">>)
              ELSE <<>>)
             \o Spread(candidate, <<"updatedAt">>, Int2Num(time)).m)
    ELSE previous

\* if (data.evaluation) setEvaluation({...data.evaluation, updatedAt})  (252-257)
NextEvaluation(previous, candidate, time) ==
    IF Truthy(candidate) THEN Spread(candidate, <<"updatedAt">>, Int2Num(time)) ELSE previous

\* Faulty variant: the message is lost when it is empty.
ThrownMessageBare(error) == Get(error, <<"error">>).s

\* new Error(error?.error || "Error en la API").message  (lines 213-216)
ThrownMessage(error) == OrElse(Get(error, <<"error">>), Str(API_ERROR)).s

(***************************************************************************)
(* The inputs of the page                                                  *)
(***************************************************************************)
\* What the user types into the text box (it is empty at first and after a
\* send).
InputTexts == {<<" ", "hola", " ">>}

\* The environments of the route behind the page: no credential and no
\* model, or both.
PageEnvs == {e \in Envs : Truthy(e.OPENAI_API_KEY) = Truthy(e.OPENAI_MODEL)}

StoredHistory ==
    Arr(<< Message("assistant", <<"Que", " ", "sabes", "?">>, 0),
           Message("user", <<"poco">>, 0) >>)
StoredEvaluation ==
    Obj(<< Member(<<"status">>, Str(<<"Aprobado">>)), Member(<<"score">>, Int2Num(80)),
           Member(<<"weakConcepts">>, Arr(<< Str(<<"condensacion">>) >>)),
           Member(<<"nextActions">>, Arr(<<>>)),
           Member(<<"summary">>, Str(<<"Buen", " ", "avance">>)),
           Member(<<"updatedAt">>, Int2Num(0)) >>)
StoredApi ==
    Obj(<< Member(<<"useLiveApi">>, Bool(FALSE)), Member(<<"apiKey">>, Str(<<"sk-page">>)),
           Member(<<"model">>, Str(<<"gpt-page">>)) >>)

\* A value of the shape the key expects, other than its default.
WellShaped(key) ==
    CASE key = KeyTask -> ProfileWith(TaskFields, TaskValues, 1, Str(<<"Fracciones">>))
      [] key = KeyStudent -> ProfileWith(StudentFields, StudentValues, 1, Str(<<"Tomas">>))
      [] key = KeyPrompt -> Str(<<"Eres", " ", "tutor">>)
      [] key = KeyMessages -> StoredHistory
      [] key = KeyEvaluation -> StoredEvaluation
      [] key = KeyApi -> StoredApi
      [] key = KeyTheme -> Str(<<"dark">>)

\* A value JSON can hold that is not of the shape the key expects.
Misshaped(key) ==
    CASE key = KeyTask -> Null
      [] key = KeyStudent -> Int2Num(7)
      [] key = KeyPrompt -> Null
      [] key = KeyMessages -> Obj(<<>>)
      [] key = KeyEvaluation -> Str(<<"x">>)
      [] key = KeyApi -> Null
      [] key = KeyTheme -> Int2Num(5)

Unparseable == <<"{", "oops">>

\* What may be stored under a key: nothing, the empty text, text that is no
\* JSON, a well-shaped value, a misshaped one.
StoredUnder(key) ==
    { Null, Str(<<>>), Str(Unparseable), Str(Stringify(WellShaped(key))),
      Str(Stringify(Misshaped(key))) }

\* The storages explored: the empty one, varied under one key at a time.
Storages ==
    UNION {{[EmptyStorage EXCEPT ![key] = stored] : stored \in StoredUnder(key)} : key \in Keys}

(***************************************************************************)
(* The steps of the page                                                   *)
(***************************************************************************)
PageInit ==
    /\ env \in PageEnvs
    /\ RouteIdle
    /\ \E storage \in Storages : PageUnmounted(storage)

\* The first render and its commit.
Mount ==
    /\ page = "unmounted"
    /\ page' = "mounted"
    /\ effects' = MountEffects
    /\ UNCHANGED <<localStorage, written, value, hydrated, queued, inputText, isSending,
                   apiError, outstanding, fetches, now>>
    /\ UNCHANGED routeVars

\* The load effect of a hook (lines 96-101): setValue and setHydrated wait
\* for the next render.
LoadStored ==
    /\ page = "mounted" /\ effects # <<>> /\ Head(effects).kind = "load"
    /\ LET key == Head(effects).key
       IN queued' = [queued EXCEPT ![key] = safeParse(localStorage[key], InitialValue(key))]
    /\ effects' = Tail(effects)
    /\ UNCHANGED <<page, localStorage, written, value, hydrated, inputText, isSending,
                   apiError, outstanding, fetches, now>>
    /\ UNCHANGED routeVars

\* The save effect of a hook (lines 104-107), with the flag and the value of
\* the render it belongs to.
SaveValue ==
    /\ page = "mounted" /\ effects # <<>> /\ Head(effects).kind = "save"
    /\ LET key == Head(effects).key
       IN /\ localStorage' = AfterSave(localStorage, hydrated, value, {key})
          /\ written' = written \cup SavedKeys(hydrated, {key})
    /\ effects' = Tail(effects)
    /\ UNCHANGED <<page, value, hydrated, queued, inputText, isSending, apiError,
                   outstanding, fetches, now>>
    /\ UNCHANGED routeVars

\* The effect of lines 163-167; apiConfig.useLiveApi of null throws.
ForceLiveApi ==
    /\ page = "mounted" /\ effects # <<>> /\ Head(effects).kind = "live"
    /\ effects' = Tail(effects)
    /\ IF apiConfig.t = "null"
       THEN page' = "crashed" /\ UNCHANGED queued
       ELSE /\ UNCHANGED page
            /\ queued' = IF ~Truthy(Get(apiConfig, <<"useLiveApi">>))
                         THEN [queued EXCEPT ![KeyApi] =
                                  Spread(apiConfig, <<"useLiveApi">>, Bool(TRUE))]
                         ELSE queued
    /\ UNCHANGED <<localStorage, written, value, hydrated, inputText, isSending, apiError,
                   outstanding, fetches, now>>
    /\ UNCHANGED routeVars

\* The render of what the effects set, and its commit; a render that throws
\* takes the page down.
Render ==
    /\ page = "mounted" /\ effects = <<>> /\ queued # NothingQueued
    /\ LET changed == {key \in Keys : queued[key] # NoUpdate}
           values == [key \in Keys |-> IF key \in changed THEN queued[key] ELSE value[key]]
       IN IF RenderThrows(values)
          THEN /\ page' = "crashed"
               /\ UNCHANGED <<value, hydrated, effects>>
          ELSE /\ value' = values
               /\ hydrated' = [key \in Keys |-> hydrated[key] \/ key \in changed]
               /\ effects' = CommitEffects(changed)
               /\ UNCHANGED page
    /\ queued' = NothingQueued
    /\ UNCHANGED <<localStorage, written, inputText, isSending, apiError, outstanding,
                   fetches, now>>
    /\ UNCHANGED routeVars

\* The page takes events once its effects have run and it is rendered.
Ready == page = "mounted" /\ effects = <<>> /\ queued = NothingQueued

\* The handler's updates, rendered, and the save effects of that commit.
Commit(values, changed) ==
    /\ value' = values
    /\ localStorage' = AfterSave(localStorage, hydrated, values, changed)
    /\ written' = written \cup SavedKeys(hydrated, changed)
    /\ UNCHANGED <<page, hydrated, queued, effects>>

\* onChange of the text box (line 648).
onChange ==
    /\ Ready
    /\ \E text \in InputTexts : inputText' = text
    /\ UNCHANGED <<page, localStorage, written, value, hydrated, queued, effects, isSending,
                   apiError, outstanding, fetches, now>>
    /\ UNCHANGED routeVars

\* handleSend up to its await (lines 220-241).
handleSend ==
    /\ Ready
    /\ CanSend(inputText, isSending) => fetches < MaxTurns
    /\ IF ~CanSend(inputText, isSending)
       THEN UNCHANGED pageVars
       ELSE IF ~Truthy(Get(apiConfig, <<"useLiveApi">>))
       THEN /\ apiError' = LIVE_OFF_SEND
            /\ UNCHANGED <<page, localStorage, written, value, hydrated, queued, effects,
                           inputText, isSending, outstanding, fetches, now>>
       ELSE LET userMessage == Message("user", Trim(inputText), now)
                nextMessages == AppendMessage(messages, userMessage)
            IN /\ apiError' = <<>>
               /\ inputText' = <<>>
               /\ Commit([value EXCEPT ![KeyMessages] = nextMessages], {KeyMessages})
               /\ isSending' = TRUE
               /\ outstanding' = Append(outstanding,
                                        [start |-> FALSE,
                                         text |-> RequestText(nextMessages, FALSE)])
               /\ fetches' = fetches + 1
               /\ now' = now + 1
    /\ UNCHANGED routeVars

\* The button is rendered while messages.length === 0 (line 594).
StartOffered == Len(messages.a) = 0

\* handleStartConversation up to its await (lines 267-277).
handleStartConversation ==
    /\ Ready
    /\ StartOffered
    /\ ~isSending => fetches < MaxTurns
    /\ IF isSending
       THEN UNCHANGED pageVars
       ELSE IF ~Truthy(Get(apiConfig, <<"useLiveApi">>))
       THEN /\ apiError' = LIVE_OFF_START
            /\ UNCHANGED <<page, localStorage, written, value, hydrated, queued, effects,
                           inputText, isSending, outstanding, fetches, now>>
       ELSE /\ apiError' = <<>>
            /\ isSending' = TRUE
            /\ outstanding' = Append(outstanding,
                                     [start |-> TRUE, text |-> RequestText(messages, TRUE)])
            /\ fetches' = fetches + 1
            /\ UNCHANGED <<page, localStorage, written, value, hydrated, queued, effects,
                           inputText, now>>
    /\ UNCHANGED routeVars

\* handleResetChat (lines 303-307).
handleResetChat ==
    /\ Ready
    /\ Commit([value EXCEPT ![KeyMessages] = Arr(<<>>), ![KeyEvaluation] = Null],
              {KeyMessages, KeyEvaluation})
    /\ apiError' = <<>>
    /\ UNCHANGED <<inputText, isSending, outstanding, fetches, now>>
    /\ UNCHANGED routeVars

\* The oldest fetch reaches the route: POST with the body sent.
RouteReceives ==
    /\ outstanding # <<>>
    /\ Receive(JsonParse(Head(outstanding).text).v)
    /\ UNCHANGED pageVars

\* The route is done with the request and awaits the next.
RouteReturns ==
    /\ pc' = "idle"
    /\ body' = Undefined
    /\ apiKey' = Undefined
    /\ model' = Undefined
    /\ input' = <<>>
    /\ calls' = <<>>
    /\ outputText' = Undefined
    /\ parsed' = Undefined
    /\ rawReply' = Undefined
    /\ caught' = Undefined
    /\ response' = Undefined
    /\ UNCHANGED env

\* response.ok
IsOk(status) == status \in 200..299

\* The awaited fetch answers with an ok response: the rest of the try block
\* and the finally block (lines 241-257, 262-264; 277-293, 298-300).
ReplyArrives ==
    /\ outstanding # <<>> /\ pc = "done" /\ IsOk(response.status)
    /\ LET data == response.body
           assistantMessage == Message("assistant", ReplyText(data), now)
           next == NextEvaluation(evaluation, Get(data, <<"evaluation">>), now)
       IN Commit([value EXCEPT ![KeyMessages] = AppendMessage(messages, assistantMessage),
                               ![KeyEvaluation] = next],
                 {KeyMessages} \cup (IF Truthy(Get(data, <<"evaluation">>))
                                     THEN {KeyEvaluation} ELSE {}))
    /\ isSending' = FALSE
    /\ outstanding' = Tail(outstanding)
    /\ now' = now + 1
    /\ UNCHANGED <<inputText, apiError, fetches>>
    /\ RouteReturns

\* The awaited fetch answers with a response that is not ok:
\* requestTutorReply throws, the catch and finally blocks run (lines
\* 213-216, 258-264, 294-300).
ErrorArrives ==
    /\ outstanding # <<>> /\ pc = "done" /\ ~IsOk(response.status)
    /\ apiError' = ThrownMessage(response.body)
    /\ isSending' = FALSE
    /\ outstanding' = Tail(outstanding)
    /\ UNCHANGED <<page, localStorage, written, value, hydrated, queued, effects, inputText,
                   fetches, now>>
    /\ RouteReturns

\* The fetch itself rejects (the request never reaches the route): the
\* catch and finally blocks.
FetchRejects ==
    /\ outstanding # <<>> /\ pc = "idle"
    /\ apiError' = FAILED_TO_FETCH
    /\ isSending' = FALSE
    /\ outstanding' = Tail(outstanding)
    /\ UNCHANGED <<page, localStorage, written, value, hydrated, queued, effects, inputText,
                   fetches, now>>
    /\ UNCHANGED routeVars

PageNext ==
    \/ Mount \/ LoadStored \/ SaveValue \/ ForceLiveApi \/ Render
    \/ onChange \/ handleSend \/ handleStartConversation \/ handleResetChat
    \/ RouteReceives \/ CreateResolves \/ CreateRejects
    \/ ReplyArrives \/ ErrorArrives \/ FetchRejects

PageSpec == PageInit /\ [][PageNext]_vars

(***************************************************************************)
(* Properties of the page                                                  *)
(***************************************************************************)
\* A fetch is settled in this step: its turn completes or fails.
TurnEnds == Len(outstanding') < Len(outstanding)

\* The turn that ends is answered by an ok response.
Answered == pc = "done" /\ IsOk(response.status)

\* The evaluation the ending turn delivers; none when it fails.
Delivered == IF Answered THEN Get(response.body, <<"evaluation">>) ELSE Null

Contents(list) == [i \in 1..Len(list) |-> Get(list[i], <<"content">>).s]
Roles(list) == [i \in 1..Len(list) |-> Get(list[i], <<"role">>).s]

\* C12: a turn that ends with an evaluation record leaves as the page's
\* record exactly the members delivered plus updatedAt, in state and in
\* storage, whatever the record before held; a turn that ends with null or
\* fails leaves the record as it was.
C12_EvaluationReplaced ==
    [][TurnEnds =>
         IF Delivered.t = "obj"
         THEN /\ evaluation' =
                    Obj(Delivered.m \o << Member(<<"updatedAt">>, Int2Num(now)) >>)
              /\ localStorage'[KeyEvaluation] = Str(Stringify(evaluation'))
         ELSE /\ evaluation' = evaluation
              /\ localStorage'[KeyEvaluation] = localStorage[KeyEvaluation]]_vars

\* Two turns one after the other: the first delivered the record with a
\* summary and a weak concept, the second the record without; the page's
\* record holds neither.
C12_Witness ==
    /\ outstanding = <<>>
    /\ messages.t = "arr"
    /\ Contents(messages.a) =
           << <<"hola">>, <<"Bien">>, <<"hola">>, <<"Que", " ", "pasa", "?">> >>
    /\ evaluation.t = "obj"
    /\ Get(evaluation, <<"summary">>) = Undefined
    /\ Get(evaluation, <<"weakConcepts">>) = Arr(<<>>)
    /\ Get(evaluation, <<"status">>) = Str(<<"Aprobado">>)

IsPrefix(s, t) == Len(s) <= Len(t) /\ SubSeq(t, 1, Len(s)) = s

\* Boolean(evaluation)  (line 186)
hasEvaluation == Truthy(evaluation)

\* C13: a step that is no reset only appends to the message history and
\* leaves a present evaluation record present; a reset leaves the history
\* empty and the record null in the same step, in state and in storage.
C13_OnlyResetDeletes ==
    [][/\ ~handleResetChat =>
            /\ IsPrefix(messages.a, messages'.a)
            /\ hasEvaluation => hasEvaluation'
       /\ handleResetChat =>
            /\ messages' = Arr(<<>>) /\ evaluation' = Null
            /\ localStorage'[KeyMessages] = Str(<<"[", "]">>)
            /\ localStorage'[KeyEvaluation] = Str(<<"null">>)]_vars

\* A turn was completed (a user message and an assistant message were
\* appended) and a reset followed: history and record are empty.
C13_Witness ==
    /\ page = "mounted"
    /\ now = 3 /\ fetches = 1 /\ outstanding = <<>>
    /\ messages = Arr(<<>>) /\ evaluation = Null
    /\ localStorage[KeyMessages] = Str(<<"[", "]">>)
    /\ localStorage[KeyEvaluation] = Str(<<"null">>)

\* C14: at most one fetch is outstanding, and isSending is set exactly while
\* one is; handleSend and handleStartConversation called while isSending is
\* set issue no request and leave the history as it is.
C14_OneCallAtATime ==
    /\ [](Len(outstanding) <= 1 /\ (isSending <=> outstanding # <<>>))
    /\ [][(isSending /\ (handleSend \/ handleStartConversation)) =>
             UNCHANGED <<value, outstanding, fetches, localStorage>>]_vars

\* A call is outstanding after a reset, with a text typed: the send and the
\* start are both at hand and both held back by isSending alone.
C14_Witness ==
    /\ Ready /\ isSending /\ Len(outstanding) = 1
    /\ Trim(inputText) # <<>>
    /\ StartOffered
    /\ fetches < MaxTurns

\* A send is outstanding and the history is empty: the user message appended
\* before the call was cleared by a reset since.
ResetSinceSend == outstanding # <<>> /\ ~Head(outstanding).start /\ messages.a = <<>>

Last(s) == s[Len(s)]

\* C15: an ok response is applied whatever happened since its call was
\* issued: the assistant message is appended to the history as it is then,
\* and a delivered record is stored; after a reset during the call the
\* history is that one message.
C15_NoCancellation ==
    [][(TurnEnds /\ Answered) =>
         /\ Len(messages'.a) = Len(messages.a) + 1
         /\ IsPrefix(messages.a, messages'.a)
         /\ Get(Last(messages'.a), <<"role">>) = Str(<<"assistant">>)
         /\ Get(Last(messages'.a), <<"content">>) = Str(ReplyText(response.body))
         /\ ResetSinceSend => Len(messages'.a) = 1
         /\ Delivered.t = "obj" => hasEvaluation']_vars

\* One send, one answer, and the history holds the assistant message alone,
\* with a record: the user message was cleared while the call was
\* outstanding and the answer came in after.
C15_Witness ==
    /\ page = "mounted"
    /\ fetches = 1 /\ now = 3 /\ outstanding = <<>>
    /\ Roles(messages.a) = << <<"assistant">> >>
    /\ hasEvaluation

\* What the catch block shows for the fetch that fails in this step.
Surfaced ==
    IF pc = "done"
    THEN (IF Get(response.body, <<"error">>).s # <<>>
          THEN Get(response.body, <<"error">>).s ELSE API_ERROR)
    ELSE FAILED_TO_FETCH

\* C16: a turn that fails (a response that is not ok, or a fetch that
\* rejects) sets the error message, not empty, issues no request, leaves
\* history and evaluation record as they are and clears isSending; unless
\* a reset came in between, the last message of the history is then the
\* user's.
C16_FailedTurn ==
    [][(TurnEnds /\ ~Answered) =>
         /\ apiError' = Surfaced /\ apiError' # <<>>
         /\ fetches' = fetches /\ outstanding' = Tail(outstanding)
         /\ messages' = messages /\ evaluation' = evaluation
         /\ localStorage' = localStorage
         /\ ~isSending'
         /\ (~Head(outstanding).start /\ ~ResetSinceSend) =>
              Get(Last(messages'.a), <<"role">>) = Str(<<"user">>)]_vars

\* A send failed at the model: the message of that error is shown, the
\* history holds the user message alone.
C16_Witness ==
    /\ page = "mounted"
    /\ fetches = 1 /\ outstanding = <<>> /\ ~isSending
    /\ apiError = <<"401", " ", "Incorrect", " ", "API", " ", "key">>
    /\ Roles(messages.a) = << <<"user">> >>
    /\ Contents(messages.a) = << <<"hola">> >>

AllText(v, fields) ==
    v.t = "obj" /\ \A i \in 1..Len(fields) : Get(v, fields[i]).t = "str"

\* v is of the type the hook of the key is declared with (lines 8-44,
\* 121-147).
ExpectedShape(key, v) ==
    CASE key = KeyTask -> AllText(v, TaskFields)
      [] key = KeyStudent -> AllText(v, StudentFields)
      [] key = KeyPrompt -> v.t = "str"
      [] key = KeyMessages ->
            /\ v.t = "arr"
            /\ \A i \in 1..Len(v.a) :
                  /\ AllText(v.a[i], << <<"id">>, <<"role">>, <<"content">> >>)
                  /\ Get(v.a[i], <<"role">>).s \in {<<"user">>, <<"assistant">>}
                  /\ Get(v.a[i], <<"ts">>).t = "num"
      [] key = KeyEvaluation ->
            \/ v.t = "null"
            \/ /\ AllText(v, << <<"status">> >>)
               /\ Get(v, <<"score">>).t = "num"
               /\ Get(v, <<"weakConcepts">>).t = "arr"
               /\ Get(v, <<"nextActions">>).t = "arr"
      [] key = KeyApi ->
            /\ AllText(v, << <<"apiKey">>, <<"model">> >>)
            /\ Get(v, <<"useLiveApi">>).t = "bool"
      [] key = KeyTheme -> v \in {Str(<<"light">>), Str(<<"dark">>)}

\* What is stored under the key is corrupt: absent, empty, no JSON, or JSON
\* of another shape than the key's.
Corrupt(key, stored) ==
    \/ stored.t = "null"
    \/ stored.s = <<>>
    \/ ~JsonParse(stored.s).ok
    \/ ~ExpectedShape(key, JsonParse(stored.s).v)

\* C17: once a key is loaded from corrupt content, the hook holds the key's
\* initialValue, and the page is up.
C17_CorruptDegrades ==
    /\ page # "crashed"
    /\ \A key \in Keys :
         (hydrated[key] /\ Corrupt(key, localStorage[key])) => value[key] = InitialValue(key)

\* C18: the history never holds two assistant messages in a row, and every
\* assistant message in it has a content that is not empty.
C18_AssistantMessages ==
    LET list == messages.a
    IN /\ \A i \in 1..(Len(list) - 1) :
            ~(Roles(list)[i] = <<"assistant">> /\ Roles(list)[i + 1] = <<"assistant">>)
       /\ \A i \in 1..Len(list) :
            Roles(list)[i] = <<"assistant">> => Contents(list)[i] # <<>>

\* A start answered with no text, then a send answered: assistant, user,
\* assistant, the first with the stand-in text.
C18_Witness ==
    /\ Roles(messages.a) = << <<"assistant">>, <<"user">>, <<"assistant">> >>
    /\ Contents(messages.a)[1] = NO_REPLY
    /\ outstanding = <<>>

\* C19: storage changes under a key only by the save effect of its hook, and
\* only once the hook is hydrated; the first write under a key stores the
\* value loaded from what was there before: the stored value if it parses,
\* the initialValue if not.
C19_NoWriteBeforeLoad ==
    [][\A key \in Keys :
         /\ (localStorage'[key] # localStorage[key] \/ (key \in written' /\ key \notin written))
              => hydrated[key]
         /\ (key \in written' /\ key \notin written) =>
              localStorage'[key] =
                  Str(Stringify(safeParse(localStorage[key], InitialValue(key))))]_vars

\* The task stored before startup is still stored after the first write.
C19_Witness ==
    /\ KeyTask \in written
    /\ taskConfig = WellShaped(KeyTask)
    /\ localStorage[KeyTask] = Str(Stringify(WellShaped(KeyTask)))

====
